---- MODULE Spec2Model ----
(***************************************************************************)
(* A model of intake_bluesky/jsonl.py: BlueskyJSONLCatalog, a catalog of   *)
(* bluesky runs backed by newline-delimited JSON files.                    *)
(*                                                                         *)
(* Strings that the code parses (uids, catalog keys) are sequences of      *)
(* one-character strings, so that int(name) is computed and not assumed.   *)
(* A line of a file is a record: text "json" with the two elements of the  *)
(* JSON list (name, doc), or text "garbage" for a line json.loads rejects. *)
(* A Python dict is an insertion-ordered sequence of <<key, value>> pairs. *)
(***************************************************************************)
EXTENDS Integers, Sequences, FiniteSets, TLC

VARIABLES
    files,           \* the file system: path -> sequence of lines
    jsonl_filelist,  \* the list of paths the root catalog is built from
    cats,            \* the catalogs built so far: root first, then search results
    member,          \* the outcome of the latest `key in catalog` test
    call             \* the accessor call in progress or just finished

vars == <<files, jsonl_filelist, cats, member, call>>

\* ------------------------------------------------------------------ bounds

NumFiles == 2
MaxCatalogs == 3
MaxLines == 2
MaxSkip == 2
MaxLimit == 2

\* ------------------------------------------------------------------ values

U1 == <<"u", "1">>
U2 == <<"u", "2">>
Uids == {U1, U2}
\* keys a client may test or look up: the uids, '-1', '42' and 'x'
Keys == Uids \cup {<<"-", "1">>, <<"4", "2">>, <<"x">>}
PlanNames == {"scan", "count"}

Line(name, doc) == [text |-> "json", name |-> name, doc |-> doc]
GarbageLine == [text |-> "garbage"]

StartDocs == {[uid |-> u, plan_name |-> p] : u \in Uids, p \in PlanNames}
DescriptorDoc == [uid |-> "d1"]

\* A Python optional: None is <<>>, a value v is <<v>>.
None == <<>>
Some(v) == <<v>>

\* ------------------------------------------------------------------ dict

dict_has(d, k) == \E i \in 1..Len(d) : d[i][1] = k
dict_get(d, k) == d[CHOOSE i \in 1..Len(d) : d[i][1] = k][2]
\* a variant of dict_set that keeps the value a key already has (first write
\* wins): C4 must tell it from the code
dict_set_keep_first(d, k, v) ==
    IF dict_has(d, k) THEN d ELSE Append(d, <<k, v>>)

dict_set(d, k, v) ==
    IF dict_has(d, k)
    THEN [i \in 1..Len(d) |-> IF d[i][1] = k THEN <<k, v>> ELSE d[i]]
    ELSE Append(d, <<k, v>>)
dict_keys(d) == [i \in 1..Len(d) |-> d[i][1]]
dict_values(d) == [i \in 1..Len(d) |-> d[i][2]]

\* ------------------------------------------------------------------ parsing

\* json.loads(line) followed by the unpacking `name, doc = ...`
json_loads(line) ==
    IF line.text = "json"
    THEN [raised |-> "none", name |-> line.name, doc |-> line.doc]
    ELSE [raised |-> "MalformedDocument", name |-> "", doc |-> None]

IsDigit(c) == c \in {"0", "1", "2", "3", "4", "5", "6", "7", "8", "9"}

\* int(name) on a string: an optional sign, then one or more digits
\* (no key of the model holds white space or an underscore).
int_parses(name) ==
    LET body == IF Len(name) > 0 /\ name[1] \in {"-", "+"} THEN Tail(name) ELSE name
    IN  Len(body) > 0 /\ \A i \in 1..Len(body) : IsDigit(body[i])

\* ------------------------------------------------------------------ queries

EmptyQuery == [op |-> "empty", field |-> "", value |-> "", args |-> <<>>]
Eq(field, value) == [op |-> "eq", field |-> field, value |-> value, args |-> <<>>]
And(args) == [op |-> "and", field |-> "", value |-> "", args |-> args]
Or(args) == [op |-> "or", field |-> "", value |-> "", args |-> args]

\* the filters a caller passes: {}, {'plan_name': 'scan'}, {'uid': 'u1'}
Queries == {EmptyQuery, Eq("plan_name", "scan"), Eq("uid", U1)}

\* mongoquery's Query(query).match(doc)
RECURSIVE Match(_, _)
Match(query, doc) ==
    CASE query.op = "empty" -> TRUE
      [] query.op = "eq" -> query.field \in DOMAIN doc /\ doc[query.field] = query.value
      [] query.op = "and" -> \A i \in 1..Len(query.args) : Match(query.args[i], doc)
      [] query.op = "or" -> \E i \in 1..Len(query.args) : Match(query.args[i], doc)

\* ------------------------------------------------------------------ run index

\* _update_index, from the i-th file of file_list on; self holds _query, _runs,
\* _run_starts and the exception that ended the loop ("none" while it runs).
RECURSIVE update_index(_, _, _)
update_index(self, file_list, i) ==
    IF i > Len(file_list) THEN self
    ELSE
        LET run_file == file_list[i]
            first == json_loads(files[run_file][1])
        IN  IF first.raised # "none" THEN [self EXCEPT !.raised = first.raised]
            ELSE IF first.name # "start" THEN [self EXCEPT !.raised = "InvalidRunFile"]
            ELSE IF Match(self.query, first.doc)
            THEN update_index(
                    [self EXCEPT !.runs = dict_set(@, first.doc.uid, run_file),
                                 !.run_starts = dict_set(@, first.doc.uid, first.doc)],
                    file_list, i + 1)
            ELSE update_index(self, file_list, i + 1)

\* __init__: empty _runs and _run_starts, the query (or {}), then _update_index
construct(file_list, query) ==
    update_index([query |-> query, runs |-> <<>>, run_starts |-> <<>>,
                  raised |-> "none"], file_list, 1)

\* a variant of search_filelist that searches the file list the first catalog
\* was given instead of the files of this catalog: C9 must tell it from the code
search_filelist_original(self) == jsonl_filelist

\* the file list search() hands to the new catalog
search_filelist(self) == dict_values(self.runs)

\* a variant of search_query that combines the filters with $or: C2 must tell
\* it from the code
search_query_or(self, query) ==
    IF self.query # EmptyQuery THEN Or(<<self.query, query>>) ELSE query

\* the query search() hands to the new catalog
search_query(self, query) ==
    IF self.query # EmptyQuery THEN And(<<self.query, query>>) ELSE query

\* search(query): a new catalog over this catalog's files
search(self, query) == construct(search_filelist(self), search_query(self, query))

\* ------------------------------------------------------------------ accessors

\* a variant of get_run_stop that returns a stop document found on any line:
\* C7 must tell it from the code
get_run_stop_any_line(lines) ==
    LET stops == {i \in 1..Len(lines) : lines[i].text = "json" /\ lines[i].name = "stop"}
    IN  IF stops = {} THEN [raised |-> "none", ret |-> None]
        ELSE [raised |-> "none", ret |-> Some(lines[CHOOSE i \in stops : TRUE].doc)]

\* _get_run_stop on the lines of the run's file: readlines()[-1] is parsed
get_run_stop(lines) ==
    LET last == json_loads(lines[Len(lines)])
    IN  IF last.raised # "none" THEN [raised |-> last.raised, ret |-> None]
        ELSE IF last.name = "stop" THEN [raised |-> "none", ret |-> Some(last.doc)]
        ELSE [raised |-> "none", ret |-> None]


\* _get_event_descriptors: every descriptor document, in file order
RECURSIVE descriptors_scan(_, _, _)
descriptors_scan(lines, i, descriptors) ==
    IF i > Len(lines) THEN [raised |-> "none", ret |-> descriptors]
    ELSE
        LET l == json_loads(lines[i])
        IN  IF l.raised # "none" THEN [raised |-> l.raised, ret |-> <<>>]
            ELSE IF l.name = "descriptor"
            THEN descriptors_scan(lines, i + 1, Append(descriptors, l.doc))
            ELSE descriptors_scan(lines, i + 1, descriptors)

get_event_descriptors(lines) == descriptors_scan(lines, 1, <<>>)

\* _get_event_count: a full scan counting the events of the descriptor set
RECURSIVE count_scan(_, _, _, _)
count_scan(lines, i, descriptor_set, event_count) ==
    IF i > Len(lines) THEN [raised |-> "none", ret |-> event_count]
    ELSE
        LET l == json_loads(lines[i])
        IN  IF l.raised # "none" THEN [raised |-> l.raised, ret |-> 0]
            ELSE IF l.name = "event" /\ l.doc.descriptor \in descriptor_set
            THEN count_scan(lines, i + 1, descriptor_set, event_count + 1)
            ELSE count_scan(lines, i + 1, descriptor_set, event_count)

\* a variant of get_event_count that counts the events of every descriptor:
\* C5 must tell it from the code
get_event_count_any_descriptor(lines, descriptor_uids) ==
    count_scan(lines, 1, {"d1", "d2"}, 0)

get_event_count(lines, descriptor_uids) == count_scan(lines, 1, descriptor_uids, 0)

\* _get_resource: the first resource document with this uid, else ValueError
RECURSIVE resource_scan(_, _, _)
resource_scan(lines, i, uid) ==
    IF i > Len(lines) THEN [raised |-> "NotFound", ret |-> None]
    ELSE
        LET l == json_loads(lines[i])
        IN  IF l.raised # "none" THEN [raised |-> l.raised, ret |-> None]
            ELSE IF l.name = "resource" /\ l.doc.uid = uid
            THEN [raised |-> "none", ret |-> Some(l.doc)]
            ELSE resource_scan(lines, i + 1, uid)

get_resource(lines, uid) == resource_scan(lines, 1, uid)

\* _get_datum: the first datum document with this datum_id, else ValueError
RECURSIVE datum_scan(_, _, _)
datum_scan(lines, i, datum_id) ==
    IF i > Len(lines) THEN [raised |-> "NotFound", ret |-> None]
    ELSE
        LET l == json_loads(lines[i])
        IN  IF l.raised # "none" THEN [raised |-> l.raised, ret |-> None]
            ELSE IF l.name = "datum" /\ l.doc.datum_id = datum_id
            THEN [raised |-> "none", ret |-> Some(l.doc)]
            ELSE datum_scan(lines, i + 1, datum_id)

\* a variant of get_datum that returns the last datum with this datum_id:
\* C6 must tell it from the code
get_datum_last(lines, datum_id) ==
    LET hits == {i \in 1..Len(lines) :
                    /\ lines[i].text = "json" /\ lines[i].name = "datum"
                    /\ lines[i].doc.datum_id = datum_id}
    IN  IF hits = {} THEN datum_scan(lines, 1, datum_id)
        ELSE [raised |-> "none",
              ret |-> Some(lines[CHOOSE i \in hits : \A j \in hits : j <= i].doc)]

get_datum(lines, datum_id) == datum_scan(lines, 1, datum_id)

\* ------------------------------------------------------------------ cursors

\* A cursor is a generator; c is its frame: the arguments, pc ("created" before
\* the first pull, "suspended" at a yield, "done" once the body has ended,
\* "released" once the consumer has closed or dropped it), pos (the line of the
\* yield it is suspended at), skip_counter, the documents yielded so far, the
\* exception that ended it, whether it holds the file open, and how many times
\* it opened the file.

\* a variant of with_exit for a file opened without a with-statement: the
\* handle stays open; C8 must tell it from the code
with_exit_leak(c, pc, raised) == [c EXCEPT !.pc = pc, !.raised = raised]

\* the with-statement is left: the handle is closed
with_exit(c, pc, raised) == [c EXCEPT !.pc = pc, !.raised = raised, !.handle_open = FALSE]

\* the with-statement is entered: open(self._runs[run_start_uid], 'r')
with_enter(c) == [c EXCEPT !.handle_open = TRUE, !.opens = @ + 1]

\* the page test of both cursors
in_page(c) == c.skip_counter >= c.skip /\ (c.limit = None \/ c.skip_counter < c.limit[1])

\* the end test of both cursors, after skip_counter += 1
page_ended(c) == c.limit # None /\ c.skip_counter >= c.limit[1]

\* _get_event_cursor: the body from line i on (event_cursor_run), and from the
\* statement after the yield at line i on (event_cursor_resume)
RECURSIVE event_cursor_run(_, _, _)
RECURSIVE event_cursor_resume(_, _, _)
event_cursor_run(lines, c, i) ==
    IF i > Len(lines) THEN with_exit(c, "done", "none")
    ELSE
        LET l == json_loads(lines[i])
        IN  IF l.raised # "none" THEN with_exit(c, "done", l.raised)
            ELSE IF l.name = "event" /\ l.doc.descriptor \in c.descriptor_uids
            THEN IF in_page(c)
                 THEN [c EXCEPT !.pc = "suspended", !.pos = i, !.yielded = Append(@, l.doc)]
                 ELSE event_cursor_resume(lines, c, i)
            ELSE event_cursor_run(lines, c, i + 1)

event_cursor_resume(lines, c, i) ==
    LET d == [c EXCEPT !.skip_counter = @ + 1]
    IN  IF page_ended(d) THEN with_exit(d, "done", "none")
        ELSE event_cursor_run(lines, d, i + 1)

\* _get_datum_cursor: as the event cursor, on the datums of one resource
RECURSIVE datum_cursor_run(_, _, _)
RECURSIVE datum_cursor_resume(_, _, _)
datum_cursor_run(lines, c, i) ==
    IF i > Len(lines) THEN with_exit(c, "done", "none")
    ELSE
        LET l == json_loads(lines[i])
        IN  IF l.raised # "none" THEN with_exit(c, "done", l.raised)
            ELSE IF l.name = "datum" /\ l.doc.resource = c.key
            THEN IF in_page(c)
                 THEN [c EXCEPT !.pc = "suspended", !.pos = i, !.yielded = Append(@, l.doc)]
                 ELSE datum_cursor_resume(lines, c, i)
            ELSE datum_cursor_run(lines, c, i + 1)

datum_cursor_resume(lines, c, i) ==
    LET d == [c EXCEPT !.skip_counter = @ + 1]
    IN  IF page_ended(d) THEN with_exit(d, "done", "none")
        ELSE datum_cursor_run(lines, d, i + 1)

\* next(cursor): the first pull enters the with-statement and runs the body
\* from the first line, a later pull resumes after the yield
cursor_next(lines, c) ==
    IF c.pc = "created"
    THEN IF c.op = "get_event_cursor"
         THEN event_cursor_run(lines, with_enter(c), 1)
         ELSE datum_cursor_run(lines, with_enter(c), 1)
    ELSE IF c.op = "get_event_cursor"
         THEN event_cursor_resume(lines, c, c.pos)
         ELSE datum_cursor_resume(lines, c, c.pos)

\* cursor.close(), or the cursor is dropped and collected: GeneratorExit is
\* raised at the yield and leaves the with-statement; a cursor that was never
\* pulled has run nothing
cursor_close(c) ==
    IF c.pc = "suspended" THEN with_exit(c, "released", "none")
    ELSE [c EXCEPT !.pc = "released"]

\* ------------------------------------------------------------------ entries

\* Entries._doc_to_entry: the entry's metadata holds the start and stop documents
doc_to_entry(self, run_start_doc) ==
    LET stop == get_run_stop(files[dict_get(self.runs, run_start_doc.uid)])
    IN  [raised |-> stop.raised, start |-> run_start_doc, stop |-> stop.ret]

\* Entries.keys
keys(self) == dict_keys(self.runs)

\* Entries.__getitem__: what it raises ("none" when it returns an entry)
getitem(self, name) ==
    IF int_parses(name) THEN "NotImplementedError"
    ELSE IF ~dict_has(self.run_starts, name) THEN "KeyError"
    ELSE doc_to_entry(self, dict_get(self.run_starts, name)).raised

\* Entries.__contains__: only KeyError is caught
contains(self, key) ==
    LET r == getitem(self, key)
    IN  IF r = "KeyError" THEN [raised |-> "none", value |-> FALSE]
        ELSE IF r = "none" THEN [raised |-> "none", value |-> TRUE]
        ELSE [raised |-> r, value |-> FALSE]

\* ------------------------------------------------------------------ state machine

\* the frame of a call: see the cursors above; an accessor that is no generator
\* runs to its end in one step
Frame(op, run, descriptor_uids, key, skip, limit) ==
    [op |-> op, run |-> run, descriptor_uids |-> descriptor_uids, key |-> key,
     skip |-> skip, limit |-> limit, pc |-> "created", pos |-> 0, skip_counter |-> 0,
     yielded |-> <<>>, ret |-> None, raised |-> "none", handle_open |-> FALSE,
     opens |-> 0]

NoCall == [Frame("none", <<>>, {}, "", 0, None) EXCEPT !.pc = "idle"]

\* an accessor that is no generator: the with-statement is entered, the scan
\* returns or raises r, the with-statement is left
returned(c, r) == with_exit([with_enter(c) EXCEPT !.ret = r.ret], "done", r.raised)

\* the lines of the file self._runs[run_start_uid] names
run_lines(self, run_start_uid) == files[dict_get(self.runs, run_start_uid)]
NoMember == [cat |-> 0, key |-> <<>>, raised |-> "none", value |-> FALSE]

\* what a file's first line may be: a start document, another document, garbage
FirstLines ==
    {Line("start", d) : d \in StartDocs} \cup {Line("descriptor", DescriptorDoc), GarbageLine}

Init ==
    /\ \E n \in 1..NumFiles :
        /\ files \in [1..n -> {<<l>> : l \in FirstLines}]
        /\ jsonl_filelist = [i \in 1..n |-> i]
    /\ cats = <<>>
    /\ member = NoMember
    /\ call = NoCall

\* BlueskyJSONLCatalog(jsonl_filelist, query=query)
Construct(query) ==
    /\ cats = <<>>
    /\ cats' = <<[cat |-> construct(jsonl_filelist, query), parent |-> 0,
                  file_list |-> jsonl_filelist, arg |-> query]>>
    /\ UNCHANGED <<files, jsonl_filelist, member, call>>

\* child = cats[i].search(query), on the catalog built last
Search(query) ==
    /\ cats # <<>>
    /\ Len(cats) < MaxCatalogs
    /\ cats[Len(cats)].cat.raised = "none"
    /\ cats' = Append(cats, [cat |-> search(cats[Len(cats)].cat, query),
                             parent |-> Len(cats),
                             file_list |-> search_filelist(cats[Len(cats)].cat),
                             arg |-> query])
    /\ UNCHANGED <<files, jsonl_filelist, member, call>>

\* key in catalog, on any catalog that was constructed
Contains(i, key) ==
    /\ member = NoMember
    /\ i \in 1..Len(cats)
    /\ cats[i].cat.raised = "none"
    /\ member' = [cat |-> i, key |-> key] @@ contains(cats[i].cat, key)
    /\ UNCHANGED <<files, jsonl_filelist, cats, call>>

\* the caller drops the outcome of the membership test
ForgetMember ==
    /\ member # NoMember
    /\ member' = NoMember
    /\ UNCHANGED <<files, jsonl_filelist, cats, call>>

Next ==
    \/ \E q \in Queries : Construct(q)
    \/ \E q \in Queries : Search(q)
    \/ \E i \in 1..MaxCatalogs, k \in Keys : Contains(i, k)
    \/ ForgetMember

Spec == Init /\ [][Next]_vars

\* ------------------------------------------------------------------ one run's file

EventDocs == {[uid |-> "e1", descriptor |-> "d1"], [uid |-> "e2", descriptor |-> "d1"],
              [uid |-> "e3", descriptor |-> "d2"]}
DatumDocs == {[datum_id |-> "m1", resource |-> "r1"], [datum_id |-> "m2", resource |-> "r1"],
              [datum_id |-> "m1", resource |-> "r2"]}
ResourceDocs == {[uid |-> "r1", spec |-> "A"], [uid |-> "r1", spec |-> "B"],
                 [uid |-> "r2", spec |-> "A"]}
StopDoc == [exit_status |-> "success"]

\* what a line after the first may be
BodyLines ==
    {Line("event", d) : d \in EventDocs} \cup {Line("datum", d) : d \in DatumDocs}
    \cup {Line("resource", d) : d \in ResourceDocs}
    \cup {Line("descriptor", DescriptorDoc), Line("stop", StopDoc), GarbageLine}

DescriptorSets == {{"d1"}, {"d1", "d2"}}
ResourceUids == {"r1", "r2"}
DatumIds == {"m1", "m2"}
Skips == 0..MaxSkip
Limits == {None} \cup {Some(n) : n \in 0..MaxLimit}

\* one run file, a start document and up to MaxLines further lines, in a
\* catalog built over it with no query
InitCursor ==
    /\ \E n \in 0..MaxLines : \E body \in [1..n -> BodyLines] :
        files = [p \in {1} |-> <<Line("start", [uid |-> U1, plan_name |-> "scan"])>> \o body]
    /\ jsonl_filelist = <<1>>
    /\ cats = <<[cat |-> construct(jsonl_filelist, EmptyQuery), parent |-> 0,
                 file_list |-> jsonl_filelist, arg |-> EmptyQuery]>>
    /\ member = NoMember
    /\ call = NoCall

\* no call is in flight and the last call's outcome was dropped: the caller
\* may make the next call
CallEnded == call.pc = "idle"

Runs == {dict_keys(cats[1].cat.runs)[i] : i \in 1..Len(cats[1].cat.runs)}

GetRunStop(uid) ==
    /\ CallEnded
    /\ call' = returned(Frame("get_run_stop", uid, {}, "", 0, None),
                        get_run_stop(run_lines(cats[1].cat, uid)))
    /\ UNCHANGED <<files, jsonl_filelist, cats, member>>

GetEventDescriptors(uid) ==
    /\ CallEnded
    /\ call' = returned(Frame("get_event_descriptors", uid, {}, "", 0, None),
                        get_event_descriptors(run_lines(cats[1].cat, uid)))
    /\ UNCHANGED <<files, jsonl_filelist, cats, member>>

GetEventCount(uid, descriptor_uids) ==
    /\ CallEnded
    /\ call' = returned(Frame("get_event_count", uid, descriptor_uids, "", 0, None),
                        get_event_count(run_lines(cats[1].cat, uid), descriptor_uids))
    /\ UNCHANGED <<files, jsonl_filelist, cats, member>>

GetResource(uid, resource_uid) ==
    /\ CallEnded
    /\ call' = returned(Frame("get_resource", uid, {}, resource_uid, 0, None),
                        get_resource(run_lines(cats[1].cat, uid), resource_uid))
    /\ UNCHANGED <<files, jsonl_filelist, cats, member>>

GetDatum(uid, datum_id) ==
    /\ CallEnded
    /\ call' = returned(Frame("get_datum", uid, {}, datum_id, 0, None),
                        get_datum(run_lines(cats[1].cat, uid), datum_id))
    /\ UNCHANGED <<files, jsonl_filelist, cats, member>>

\* cursor = get_event_cursor(descriptor_uids, skip, limit): nothing runs yet
GetEventCursor(uid, descriptor_uids, skip, limit) ==
    /\ CallEnded
    /\ call' = Frame("get_event_cursor", uid, descriptor_uids, "", skip, limit)
    /\ UNCHANGED <<files, jsonl_filelist, cats, member>>

\* cursor = get_datum_cursor(resource_uid, skip, limit): nothing runs yet
GetDatumCursor(uid, resource_uid, skip, limit) ==
    /\ CallEnded
    /\ call' = Frame("get_datum_cursor", uid, {}, resource_uid, skip, limit)
    /\ UNCHANGED <<files, jsonl_filelist, cats, member>>

\* the consumer pulls the next document
CursorNext ==
    /\ call.pc \in {"created", "suspended"}
    /\ call' = cursor_next(run_lines(cats[1].cat, call.run), call)
    /\ UNCHANGED <<files, jsonl_filelist, cats, member>>

\* the consumer stops pulling and closes or drops the cursor
CursorClose ==
    /\ call.pc \in {"created", "suspended"}
    /\ call' = cursor_close(call)
    /\ UNCHANGED <<files, jsonl_filelist, cats, member>>

\* the caller drops the outcome of a call that has ended
Forget ==
    /\ call.pc \in {"done", "released"}
    /\ call' = NoCall
    /\ UNCHANGED <<files, jsonl_filelist, cats, member>>

NextCursor ==
    \/ \E uid \in Runs : GetRunStop(uid)
    \/ \E uid \in Runs : GetEventDescriptors(uid)
    \/ \E uid \in Runs, D \in DescriptorSets : GetEventCount(uid, D)
    \/ \E uid \in Runs, r \in ResourceUids : GetResource(uid, r)
    \/ \E uid \in Runs, d \in DatumIds : GetDatum(uid, d)
    \/ \E uid \in Runs, D \in DescriptorSets, skip \in Skips, limit \in Limits :
        GetEventCursor(uid, D, skip, limit)
    \/ \E uid \in Runs, r \in ResourceUids, skip \in Skips, limit \in Limits :
        GetDatumCursor(uid, r, skip, limit)
    \/ CursorNext
    \/ CursorClose
    \/ Forget

SpecCursor == InitCursor /\ [][NextCursor]_vars

\* ------------------------------------------------------------------ claims: the run index

\* a dict as the mapping it is: the set of its <<key, value>> pairs
AsMap(d) == {d[i] : i \in 1..Len(d)}

\* the number of entries a dict holds under key k
Entries(d, k) == Cardinality({i \in 1..Len(d) : d[i][1] = k})

SameIndex(a, b) ==
    AsMap(a.runs) = AsMap(b.runs) /\ AsMap(a.run_starts) = AsMap(b.run_starts)

FirstLine(path) == files[path][1]
IsStart(path) == FirstLine(path).text = "json" /\ FirstLine(path).name = "start"

\* the positions of file_list whose file declares uid u
Declaring(file_list, u) ==
    {i \in 1..Len(file_list) : IsStart(file_list[i]) /\ FirstLine(file_list[i]).doc.uid = u}

\* those of them whose start document matches the query
Registering(file_list, u, query) ==
    {i \in Declaring(file_list, u) : Match(query, FirstLine(file_list[i]).doc)}

Last(S) == CHOOSE i \in S : \A j \in S : j <= i

DistinctUids(file_list) ==
    \A u \in Uids : Cardinality(Declaring(file_list, u)) <= 1

RootBuilt == cats # <<>> /\ cats[1].cat.raised = "none"

\* C2 as claimed: for every file list, also one in which two files declare the
\* same uid, the index of catalog(L, f1).search(f2) is the index of
\* catalog(L, {$and: [f1, f2]}).
C2_SearchIsConjunctionAnyList ==
    Len(cats) >= 2 =>
        SameIndex(cats[2].cat,
                  construct(jsonl_filelist, And(<<cats[1].arg, cats[2].arg>>)))

\* C2 amended: for every file list whose files declare pairwise distinct uids
\* and all filters f1, f2, the index of catalog(L, f1).search(f2) is the index
\* of catalog(L, {$and: [f1, f2]}).
C2_SearchIsConjunction ==
    (Len(cats) >= 2 /\ DistinctUids(jsonl_filelist)) =>
        SameIndex(cats[2].cat,
                  construct(jsonl_filelist, And(<<cats[1].arg, cats[2].arg>>)))

\* C2 witness: two files with distinct uids, both in the parent built with a
\* non-empty filter, one of them narrowed away by a non-empty second filter
C2_Witness ==
    /\ Len(cats) >= 2
    /\ DistinctUids(jsonl_filelist)
    /\ cats[1].arg # EmptyQuery
    /\ cats[2].arg # EmptyQuery
    /\ Len(cats[1].cat.runs) = 2
    /\ Len(cats[2].cat.runs) = 1

\* C3 as claimed: when a file of the list has a first line that is a document
\* other than a start document, construction fails with InvalidRunFile and the
\* run index is empty at that point, however many valid files precede it.
C3_IndexEmptyOnInvalidRunFile ==
    (/\ cats # <<>>
     /\ \A i \in 1..Len(jsonl_filelist) : FirstLine(jsonl_filelist[i]).text = "json"
     /\ \E i \in 1..Len(jsonl_filelist) : ~IsStart(jsonl_filelist[i]))
    => (/\ cats[1].cat.raised = "InvalidRunFile"
        /\ cats[1].cat.runs = <<>>
        /\ cats[1].cat.run_starts = <<>>)

\* C4 as claimed: when two files of the list declare the same uid, the catalog
\* holds exactly one entry for it, with the path and the start document of the
\* last file of the list that declares it, whatever the filter (read in the
\* claim's favour: whatever filter lets the uid into the catalog at all).
C4_LastFileWinsAnyFilter ==
    RootBuilt =>
        \A u \in Uids :
            (/\ Cardinality(Declaring(jsonl_filelist, u)) >= 2
             /\ Registering(jsonl_filelist, u, cats[1].cat.query) # {}) =>
                LET last == jsonl_filelist[Last(Declaring(jsonl_filelist, u))]
                IN  /\ Entries(cats[1].cat.runs, u) = 1
                    /\ Entries(cats[1].cat.run_starts, u) = 1
                    /\ dict_get(cats[1].cat.runs, u) = last
                    /\ dict_get(cats[1].cat.run_starts, u) = FirstLine(last).doc

\* C4 amended: when two files of the list declare the same uid, the catalog
\* holds no entry for it if none of the files declaring it matches the filter,
\* and otherwise exactly one entry, with the path and the start document of the
\* last file of the list that declares it and matches the filter.
C4_LastMatchingFileWins ==
    RootBuilt =>
        \A u \in Uids :
            Cardinality(Declaring(jsonl_filelist, u)) >= 2 =>
                LET reg == Registering(jsonl_filelist, u, cats[1].cat.query)
                IN  IF reg = {}
                    THEN Entries(cats[1].cat.runs, u) = 0
                         /\ Entries(cats[1].cat.run_starts, u) = 0
                    ELSE /\ Entries(cats[1].cat.runs, u) = 1
                         /\ Entries(cats[1].cat.run_starts, u) = 1
                         /\ dict_get(cats[1].cat.runs, u) = jsonl_filelist[Last(reg)]
                         /\ dict_get(cats[1].cat.run_starts, u)
                                = FirstLine(jsonl_filelist[Last(reg)]).doc

\* C4 witness: two files declare u1 with different start documents, both match
\* the filter, and the entry is the second file's
C4_Witness ==
    /\ RootBuilt
    /\ Len(jsonl_filelist) = 2
    /\ Declaring(jsonl_filelist, U1) = {1, 2}
    /\ FirstLine(1).doc # FirstLine(2).doc
    /\ Registering(jsonl_filelist, U1, cats[1].cat.query) = {1, 2}
    /\ dict_get(cats[1].cat.runs, U1) = 2

\* C9: after any chain of searches, every uid of a child's index is in its
\* parent's index with the same path and the same start document, which matches
\* the parent's filter and the filter of the search; and a step never changes a
\* catalog that exists (search leaves its parent as it was).
C9_ChildWithinParent ==
    \A i \in 2..Len(cats) :
        LET child == cats[i].cat
            parent == cats[cats[i].parent].cat
        IN  /\ dict_keys(child.runs) = dict_keys(child.run_starts)
            /\ \A k \in 1..Len(child.runs) :
                LET uid == child.runs[k][1]
                    doc == dict_get(child.run_starts, uid)
                IN  /\ dict_has(parent.runs, uid)
                    /\ dict_get(parent.runs, uid) = child.runs[k][2]
                    /\ dict_get(parent.run_starts, uid) = doc
                    /\ Match(parent.query, doc)
                    /\ Match(cats[i].arg, doc)

C9_ParentUnchanged == \A i \in 1..Len(cats) : Len(cats') >= i /\ cats'[i] = cats[i]

C9_SearchNeverWidens == [](C9_ChildWithinParent) /\ [][C9_ParentUnchanged]_vars

\* C9 witness: a grandchild that is strictly narrower than its parent, which is
\* strictly narrower than the root
C9_Witness ==
    /\ Len(cats) >= 3
    /\ Len(cats[3].cat.runs) >= 1
    /\ cats[3].arg # EmptyQuery
    /\ Len(cats[2].cat.runs) < Len(cats[1].cat.runs)

\* C10 as claimed: `key in catalog` never raises and is true exactly when the
\* key is one of the uids keys() yields, for every key, also '-1' and '42'.
C10_MembershipTotal ==
    member.cat # 0 =>
        /\ member.raised = "none"
        /\ member.value = (\E k \in 1..Len(keys(cats[member.cat].cat)) :
                              keys(cats[member.cat].cat)[k] = member.key)

\* ------------------------------------------------------------------ claims: one run's file

TheLines == run_lines(cats[1].cat, call.run)

WellFormed(lines) == \A i \in 1..Len(lines) : lines[i].text = "json"

IsEventOf(l, D) == l.text = "json" /\ l.name = "event" /\ l.doc.descriptor \in D
IsDatumOf(l, r) == l.text = "json" /\ l.name = "datum" /\ l.doc.resource = r
IsDatum(l, id) == l.text = "json" /\ l.name = "datum" /\ l.doc.datum_id = id
IsResource(l, id) == l.text = "json" /\ l.name = "resource" /\ l.doc.uid = id

Docs(ls) == [i \in 1..Len(ls) |-> ls[i].doc]

\* the documents a cursor call selects, in file order
Matching(lines, c) ==
    LET event(l) == IsEventOf(l, c.descriptor_uids)
        datum(l) == IsDatumOf(l, c.key)
    IN  IF c.op = "get_event_cursor" THEN Docs(SelectSeq(lines, event))
        ELSE Docs(SelectSeq(lines, datum))

\* Python's s[skip : skip + limit], and s[skip :] when limit is None
Slice(s, skip, limit) ==
    LET to == IF limit = None \/ skip + limit[1] > Len(s) THEN Len(s) ELSE skip + limit[1]
    IN  SubSeq(s, skip + 1, to)

IsCursor == call.op \in {"get_event_cursor", "get_datum_cursor"}

\* C1 as claimed: a cursor consumed to its end has yielded the matching
\* documents at positions skip .. skip+limit-1 (from skip on when limit is unset).
C1_CursorYieldsPage ==
    (IsCursor /\ call.pc = "done" /\ WellFormed(TheLines)) =>
        /\ call.raised = "none"
        /\ call.yielded = Slice(Matching(TheLines, call), call.skip, call.limit)

\* C5: get_event_count(uid, D) is the number of documents yielded by consuming
\* get_event_cursor(uid, D, skip=0, limit=None) to its end (and one raises
\* exactly when the other does).
C5_CountIsCursorLength ==
    (call.op = "get_event_cursor" /\ call.pc = "done" /\ call.skip = 0 /\ call.limit = None) =>
        LET n == get_event_count(TheLines, call.descriptor_uids)
        IN  /\ n.raised = call.raised
            /\ call.raised = "none" => Len(call.yielded) = n.ret

\* C5 witness: a consumed cursor that yielded an event and passed an event of
\* another descriptor
C5_Witness ==
    /\ call.op = "get_event_cursor" /\ call.pc = "done"
    /\ call.skip = 0 /\ call.limit = None /\ call.raised = "none"
    /\ Len(call.yielded) >= 1
    /\ \E i \in 1..Len(TheLines) :
        TheLines[i].name = "event" /\ TheLines[i].doc.descriptor \notin call.descriptor_uids

\* the lines a lookup call asks for
Hits(lines, c) ==
    {i \in 1..Len(lines) :
        IF c.op = "get_datum" THEN IsDatum(lines[i], c.key) ELSE IsResource(lines[i], c.key)}

First(S) == CHOOSE i \in S : \A j \in S : i <= j

\* C6: get_datum and get_resource return the body of the earliest document of
\* their kind with the requested identifier (every line up to it being a
\* document), also when later documents carry the identifier, and fail with
\* NotFound, returning nothing, when the file holds no such document.
C6_FirstMatchLookup ==
    (call.op \in {"get_datum", "get_resource"} /\ call.pc = "done") =>
        LET hits == Hits(TheLines, call)
        IN  /\ (hits # {} /\ WellFormed(SubSeq(TheLines, 1, First(hits))))
                => (call.raised = "none" /\ call.ret = Some(TheLines[First(hits)].doc))
            /\ (hits = {} /\ WellFormed(TheLines))
                => (call.raised = "NotFound" /\ call.ret = None)

\* C6 witness: a datum_id carried by two datums with different bodies; the first is returned
C6_Witness ==
    /\ call.op = "get_datum" /\ call.pc = "done"
    /\ \E i, j \in Hits(TheLines, call) :
        /\ i < j
        /\ TheLines[i].doc # TheLines[j].doc
        /\ call.ret = Some(TheLines[i].doc)

\* C7: get_run_stop returns the body of the file's final line when that line is
\* a stop document and the no-stop value, without an error, when the final line
\* is a document of any other kind: a file of the start document only, a file
\* with a stop document on a line that is not the last.
C7_RunStopIsFinalLine ==
    (call.op = "get_run_stop" /\ call.pc = "done"
        /\ TheLines[Len(TheLines)].text = "json") =>
        /\ call.raised = "none"
        /\ TheLines[Len(TheLines)].name = "stop"
            => call.ret = Some(TheLines[Len(TheLines)].doc)
        /\ TheLines[Len(TheLines)].name # "stop" => call.ret = None

\* C7 witness: a stop document on a line that is not the last, and no stop returned
C7_Witness ==
    /\ call.op = "get_run_stop" /\ call.pc = "done"
    /\ \E i \in 1..(Len(TheLines) - 1) :
        TheLines[i].text = "json" /\ TheLines[i].name = "stop"
    /\ TheLines[Len(TheLines)].text = "json"
    /\ TheLines[Len(TheLines)].name # "stop"
    /\ call.ret = None

====
